---- MODULE Spec2Model ----
(***************************************************************************)
(* The verifying client of drand (client/verify.go): a decorator that      *)
(* verifies every round it hands out, a chain walker that derives a        *)
(* trusted previous signature, and the single-slot pointOfTrust cache      *)
(* guarded by potLk.                                                       *)
(*                                                                         *)
(* Byte strings (signatures, randomness, the group hash) are sequences of  *)
(* integers.  nil and the empty slice are both <<>>.                       *)
(***************************************************************************)
EXTENDS Integers, Sequences, FiniteSets, TLC

\* ------------------------------------------------------------------ bounds
\* Highest round number an upstream result or a request may carry.
MaxRound == 4
\* Number of Get calls each caller makes.
MaxCalls == 2
\* Number of items the upstream watch stream delivers before it must close.
MaxItems == 2

Rounds == 1..MaxRound

\* The callers of Get and the goroutine started by Watch.
Getters == {"g1", "g2"}
Watcher == "w"
Procs == Getters \cup {Watcher}

\* ------------------------------------------------------- crypto primitives
Nil == <<>>

\* info.GroupHash: the previous signature of round 1.
GroupHash == <<0>>

\* The v1 signature of the beacon over (previous signature, round).
SignV1(prev, round) == Append(prev, round)

\* The v2 signature of the beacon over the round alone.
SignV2(round) == <<0 - round>>

\* chain.VerifyBeacon(pk, b): b.Signature signs (b.PreviousSig, b.Round).
VerifyBeacon(bc) == bc.Signature = SignV1(bc.PreviousSig, bc.Round)

\* chain.VerifyBeaconV2(pk, b): b.SignatureV2 signs b.Round.
VerifyBeaconV2(bc) == bc.SignatureV2 = SignV2(bc.Round)

\* chain.RandomnessFromSignature(sig): a hash of the signature.
RandomnessFromSignature(sig) == <<0 - 7>> \o sig

\* The chain the beacon network published: round 1 signs the group hash,
\* round n signs the signature of round n-1.
RECURSIVE ChainSig(_)
ChainSig(n) == IF n = 0 THEN GroupHash ELSE SignV1(ChainSig(n - 1), n)

\* Bytes that no longer verify: a signature with a byte changed.
Tamper(sig) == Append(sig, 0)

\* A randomness value an upstream may claim; it is the hash of no signature.
Junk == <<0 - 8>>

\* ------------------------------------------------------------ result shapes
\* A Result is a record.  shape "canonical" is *RandomData; shape "other" is
\* any other implementation of Result, whose Signature() is field Sig and
\* whose optional PreviousSignature() is field PreviousSignature.
NoResult ==
    [shape |-> "none", Rnd |-> 0, Random |-> Nil, Sig |-> Nil,
     PreviousSignature |-> Nil, SigV2 |-> Nil, version |-> 0]

\* RandomData.Round
Round(x) == x.Rnd

\* RandomData.Signature
Signature(x) == IF x.version = 2 THEN x.SigV2 ELSE x.Sig

\* RandomData.Randomness
Randomness(x) == x.Random

\* ------------------------------------------------------------------- state
VARIABLES
    strict,             \* verifyingClient.strict
    v2from,             \* verifyingClient.v2from
    source,             \* what the wrapped clients serve: "any", "plain", "honest"
    pointOfTrust,       \* verifyingClient.pointOfTrust (NoResult is nil)
    potLk,              \* verifyingClient.potLk: its holder, or "free"
    pc,                 \* where each caller / the watch goroutine stands
    calls,              \* Get calls each caller has completed
    r,                  \* the upstream result being verified (Watch forwards it)
    rd,                 \* the *RandomData being verified
    ps,                 \* verify: the previous signature
    b,                  \* verify: the chain.Beacon handed to the primitive
    err,                \* the error a call ended with, "nil" for none
    ret,                \* the Result Get returned (NoResult is nil)
    trustRound,         \* getTrustedPreviousSignature: trustRound
    trustPrevSig,       \* getTrustedPreviousSignature: trustPrevSig
    initialTrustRound,  \* getTrustedPreviousSignature: initialTrustRound
    next,               \* getTrustedPreviousSignature: next
    inOpen,             \* Watch: the upstream channel inCh is open
    outCh,              \* Watch: the buffered output channel
    outClosed,          \* Watch: outCh is closed
    cancelled,          \* the context given to Watch is cancelled
    hist,               \* per call: what it fetched, verified and wrote
    items,              \* per upstream item: was its signature valid, its fate
    sent,               \* the indices of the upstream items sent on outCh
    lastOk              \* the latest result a Get returned

vars ==
    <<strict, v2from, source, pointOfTrust, potLk, pc, calls, r, rd, ps, b, err, ret,
      trustRound, trustPrevSig, initialTrustRound, next, inOpen, outCh,
      outClosed, cancelled, hist, items, sent, lastOk>>

config == <<strict, v2from, source>>
walkVars == <<trustRound, trustPrevSig, initialTrustRound, next>>
watchVars == <<inOpen, outCh, outClosed, cancelled, items, sent>>

\* ------------------------------------------------------------------ inputs
\* The previous-signature hints an upstream may attach to round n.
Hints(n) == {Nil, ChainSig(n - 1), Tamper(ChainSig(n - 1))}

\* The signatures an upstream may present for round n: the published ones,
\* and bytes that verify under neither scheme.
SigsV1(n) == {ChainSig(n), Tamper(ChainSig(n))}
SigsV2(n) == {SignV2(n), Tamper(SignV2(n))}

\* A Result value with the given fields.
Mk(shape, n, s1, s2, h) ==
    [shape |-> shape, Rnd |-> n, Random |-> Junk, Sig |-> s1,
     PreviousSignature |-> h, SigV2 |-> s2, version |-> 0]

\* *RandomData values as a transport decodes them: version is unexported and
\* stays 0; a round carries its v1 or its v2 signature.
CanonicalResults ==
    UNION {{Mk("canonical", n, s, Nil, h) : s \in SigsV1(n), h \in Hints(n)}
           \cup {Mk("canonical", n, Nil, s, h) : s \in SigsV2(n), h \in Hints(n)} :
           n \in Rounds}

\* Results of any other type: Round(), Randomness(), Signature() and,
\* optionally, PreviousSignature().
OtherResults ==
    UNION {{Mk("other", n, s, Nil, h) : s \in SigsV1(n) \cup SigsV2(n), h \in Hints(n)} :
           n \in Rounds}

\* *RandomData values of a source that serves v1 rounds without hints.
PlainResults ==
    UNION {{Mk("canonical", n, s, Nil, Nil) : s \in SigsV1(n)} : n \in Rounds}

\* What Client.Get and the channel of Client.Watch may deliver.
UpstreamResults ==
    IF source = "any" THEN CanonicalResults \cup OtherResults ELSE PlainResults

\* What indirectClient.Get(t) may return: the published signature of round t
\* or tampered bytes; a source that serves anything may label it with any
\* round, an honest one serves round t as published.
IndirectResults(t) ==
    {[Mk("other", l, s, Nil, Nil) EXCEPT !.Random = Nil] :
        l \in IF source = "any" THEN Rounds ELSE {t},
        s \in IF source = "honest" THEN {ChainSig(t)} ELSE SigsV1(t)}

\* indirectClient may fail a call the chain walker makes; an honest one whose
\* network works never does.
MayFail == source # "honest"

\* The previousResult given to newVerifyingClient: none, or round 1 as published.
Checkpoints ==
    {NoResult,
     [Mk("other", 1, ChainSig(1), Nil, Nil) EXCEPT !.Random = Nil]}

NoBeacon == [PreviousSig |-> Nil, Round |-> 0, Signature |-> Nil, SignatureV2 |-> Nil]

\* What a call has done so far: the round it verifies (0: none yet), the
\* rounds it fetched from indirectClient, the rounds whose link it verified,
\* the primitives it invoked, where verify took ps from, what the chain
\* walker returned, whether Client.Get was called, how often it wrote the
\* cache, the round of the checkpoint its walk adopted (0: none adopted),
\* whether it made an external call while holding potLk, and the latest
\* result a Get had returned when the call began.
NoLast == [Rnd |-> 0, Random |-> Nil, walked |-> FALSE]

NoHist ==
    [round |-> 0, fetched |-> {}, links |-> {}, prims |-> {}, psFrom |-> "none",
     walkRet |-> Nil, primary |-> FALSE, wrote |-> 0, anchor |-> 0,
     lockedCall |-> FALSE, since |-> NoLast]

\* -------------------------------------------------------------------- Init
\* newVerifyingClient: everything but the configuration.
Boot ==
    /\ pointOfTrust \in Checkpoints
    /\ potLk = "free"
    /\ pc = [p \in Procs |-> IF p = Watcher THEN "watch" ELSE "idle"]
    /\ calls = [p \in Getters |-> 0]
    /\ r = [p \in Procs |-> NoResult]
    /\ rd = [p \in Procs |-> NoResult]
    /\ ps = [p \in Procs |-> Nil]
    /\ b = [p \in Procs |-> NoBeacon]
    /\ err = [p \in Procs |-> "nil"]
    /\ ret = [p \in Getters |-> NoResult]
    /\ trustRound = [p \in Procs |-> 0]
    /\ trustPrevSig = [p \in Procs |-> Nil]
    /\ initialTrustRound = [p \in Procs |-> 0]
    /\ next = [p \in Procs |-> NoResult]
    /\ inOpen = FALSE
    /\ outCh = <<>>
    /\ outClosed = FALSE
    /\ cancelled = FALSE
    /\ hist = [p \in Procs |-> NoHist]
    /\ items = <<>>
    /\ sent = <<>>
    /\ lastOk = NoLast

\* A client of any configuration in front of a source that serves anything.
Init ==
    /\ strict \in BOOLEAN
    /\ v2from \in {3, MaxRound + 1}
    /\ source = "any"
    /\ Boot

\* A strict client whose rounds are all below the threshold, in front of a
\* source that serves v1 rounds without hints: every request walks the chain.
InitPlain ==
    /\ strict = TRUE
    /\ v2from = MaxRound + 1
    /\ source = "plain"
    /\ Boot

\* The same client in front of wrapped clients that serve the chain as
\* published and never fail the walker: Client.Get and Client.Watch deliver
\* rounds whose signature is the published one or has a byte changed.
InitHonest ==
    /\ strict = TRUE
    /\ v2from = MaxRound + 1
    /\ source = "honest"
    /\ Boot

\* ------------------------------------------------------------ asRandomData
asRandomData(x) ==
    IF x.shape = "canonical"
    THEN x
    ELSE [shape |-> "canonical",
          Rnd |-> Round(x),
          Random |-> Randomness(x),
          Sig |-> IF Round(x) >= v2from THEN Nil ELSE Signature(x),
          PreviousSignature |-> x.PreviousSignature,
          SigV2 |-> IF Round(x) >= v2from THEN Signature(x) ELSE Nil,
          version |-> IF Round(x) >= v2from THEN 2 ELSE 0]

\* ------------------------------------------------------------------ verify
\* Line 178: verify asks the chain walker for the previous signature.
\* NeedsWalkBug: strict is not consulted.
NeedsWalkNoThreshold(x) == strict \/ x.PreviousSignature = Nil
NeedsWalkBug(x) ==
    Round(x) < v2from /\ x.PreviousSignature = Nil
NeedsWalk(x) ==
    Round(x) < v2from /\ (strict \/ x.PreviousSignature = Nil)

\* Line 186: the round is verified under the v2 scheme.
\* UsesV2Bug: the threshold round itself is left to the v1 scheme.
UsesV2Bug(x) == Round(x) > v2from
UsesV2(x) == Round(x) >= v2from

\* Lines 186-202: the primitive verify invokes and the beacon it builds.
Primitive(x) == IF UsesV2(x) THEN "v2" ELSE "v1"

BeaconOf(x, prev) ==
    IF UsesV2(x)
    THEN [PreviousSig |-> prev, Round |-> Round(x),
          Signature |-> Nil, SignatureV2 |-> x.SigV2]
    ELSE [PreviousSig |-> prev, Round |-> Round(x),
          Signature |-> Signature(x), SignatureV2 |-> Nil]

\* Lines 193 and 203: the outcome of the primitive.
\* PrimitiveOkBug: the error of VerifyBeacon is not looked at.
PrimitiveOkBug(x, prev) ==
    IF UsesV2(x)
    THEN VerifyBeaconV2(BeaconOf(x, prev))
    ELSE TRUE
PrimitiveOk(x, prev) ==
    IF UsesV2(x)
    THEN VerifyBeaconV2(BeaconOf(x, prev))
    ELSE VerifyBeacon(BeaconOf(x, prev))

\* Lines 196 and 206: the randomness is recomputed from the signature.
Recomputed(x) ==
    [x EXCEPT !.Random = IF UsesV2(x)
                         THEN RandomnessFromSignature(x.SigV2)
                         ELSE RandomnessFromSignature(x.Sig)]

\* The signature of an upstream result is the one the beacon published for
\* its round under the scheme of that round.
ValidItem(x) ==
    IF Round(x) >= v2from
    THEN asRandomData(x).SigV2 = SignV2(Round(x))
    ELSE asRandomData(x).Sig = ChainSig(Round(x))

\* What Watch sends on outCh after verify succeeded (line 82).
Forwarded(raw, x) == IF raw.shape = "canonical" THEN x ELSE raw

\* The call of p ends with error e ("nil": none).  Get returns (x, nil) or
\* (nil, e); the watch goroutine goes on to send the item or skips it.
End(p, e, raw, x, bc, h) ==
    /\ err' = [err EXCEPT ![p] = e]
    /\ b' = [b EXCEPT ![p] = bc]
    /\ hist' = [hist EXCEPT ![p] = h]
    /\ rd' = [rd EXCEPT ![p] = NoResult]
    /\ ps' = [ps EXCEPT ![p] = bc.PreviousSig]
    /\ trustRound' = [trustRound EXCEPT ![p] = 0]
    /\ trustPrevSig' = [trustPrevSig EXCEPT ![p] = Nil]
    /\ initialTrustRound' = [initialTrustRound EXCEPT ![p] = 0]
    /\ next' = [next EXCEPT ![p] = NoResult]
    /\ IF p = Watcher
       THEN /\ pc' = [pc EXCEPT ![p] = IF e = "nil" THEN "send" ELSE "recv"]
            /\ r' = [r EXCEPT ![p] = IF e = "nil" THEN Forwarded(raw, x) ELSE NoResult]
            /\ UNCHANGED ret
       ELSE /\ pc' = [pc EXCEPT ![p] = "done"]
            /\ ret' = [ret EXCEPT ![p] = IF e = "nil" THEN x ELSE NoResult]
            /\ UNCHANGED r

\* verify, lines 185-208, once ps is known.
VerifyEnd(p, raw, x, prev, h) ==
    LET h2 == [h EXCEPT !.prims = @ \cup {Primitive(x)}] IN
    IF PrimitiveOk(x, prev)
    THEN End(p, "nil", raw, Recomputed(x), BeaconOf(x, prev), h2)
    ELSE End(p, "verify", raw, x, BeaconOf(x, prev), h2)

\* verify, lines 177-183, on a freshly fetched result raw: either ps is the
\* hint and the primitive runs, or the chain walker is entered.
VerifyStart(p, raw, h) ==
    LET x == asRandomData(raw)
        h1 == [h EXCEPT !.round = Round(x)]
    IN
    IF NeedsWalk(x)
    THEN /\ pc' = [pc EXCEPT ![p] = "tInfo"]
         /\ r' = [r EXCEPT ![p] = IF p = Watcher THEN raw ELSE NoResult]
         /\ rd' = [rd EXCEPT ![p] = x]
         /\ ps' = [ps EXCEPT ![p] = x.PreviousSignature]
         /\ b' = [b EXCEPT ![p] = NoBeacon]
         /\ err' = [err EXCEPT ![p] = "nil"]
         /\ hist' = [hist EXCEPT ![p] = [h1 EXCEPT !.psFrom = "walker"]]
         /\ UNCHANGED <<ret, walkVars>>
    ELSE VerifyEnd(p, raw, x, x.PreviousSignature, [h1 EXCEPT !.psFrom = "hint"])

\* An external call (Info, Get, a primitive) made by p: note whether p
\* holds potLk while it makes it.
Called(h, p) == [h EXCEPT !.lockedCall = @ \/ potLk = p]

\* The fate of the upstream item the watch goroutine is working on.
Fate(at) ==
    CASE at = "send" -> "passed"
      [] at = "recv" -> "dropped"
      [] OTHER -> "checking"

Track(p, base) ==
    items' = IF p = Watcher
             THEN [base EXCEPT ![Len(base)].fate = Fate(pc'[p])]
             ELSE items

\* --------------------------------------------------------------------- Get
\* Line 48: Get asks indirectClient for the chain info.
\* GetInfoBug: Client.Get is called before the error of Info is looked at.
GetInfoBug(p) ==
    /\ p \in Getters
    /\ pc[p] = "idle"
    /\ calls[p] < MaxCalls
    /\ LET h == [Called(NoHist, p) EXCEPT !.since = lastOk] IN
       \/ /\ pc' = [pc EXCEPT ![p] = "get"]
          /\ hist' = [hist EXCEPT ![p] = h]
          /\ UNCHANGED <<r, rd, ps, b, err, ret, walkVars>>
       \/ End(p, "info", NoResult, NoResult, NoBeacon, [h EXCEPT !.primary = TRUE])
    /\ UNCHANGED <<config, pointOfTrust, potLk, calls, watchVars, lastOk>>
GetInfo(p) ==
    /\ p \in Getters
    /\ pc[p] = "idle"
    /\ calls[p] < MaxCalls
    /\ LET h == [Called(NoHist, p) EXCEPT !.since = lastOk] IN
       \/ /\ pc' = [pc EXCEPT ![p] = "get"]
          /\ hist' = [hist EXCEPT ![p] = h]
          /\ UNCHANGED <<r, rd, ps, b, err, ret, walkVars>>
       \/ End(p, "info", NoResult, NoResult, NoBeacon, h)
    /\ UNCHANGED <<config, pointOfTrust, potLk, calls, watchVars, lastOk>>

\* Lines 52-60: Get fetches the round from the wrapped client, adapts it and
\* starts verify.
GetFetch(p) ==
    /\ p \in Getters
    /\ pc[p] = "get"
    /\ LET h == [Called(hist[p], p) EXCEPT !.primary = TRUE] IN
       \/ End(p, "get", NoResult, NoResult, NoBeacon, h)
       \/ \E raw \in UpstreamResults : VerifyStart(p, raw, h)
    /\ UNCHANGED <<config, pointOfTrust, potLk, calls, watchVars, lastOk>>

\* Get has returned; the caller goes on to its next call.
GetReturn(p) ==
    /\ p \in Getters
    /\ pc[p] = "done"
    /\ pc' = [pc EXCEPT ![p] = "idle"]
    /\ calls' = [calls EXCEPT ![p] = @ + 1]
    /\ lastOk' = IF err[p] = "nil"
                 THEN [Rnd |-> Round(ret[p]), Random |-> Randomness(ret[p]),
                       walked |-> hist[p].psFrom = "walker"]
                 ELSE lastOk
    /\ ret' = [ret EXCEPT ![p] = NoResult]
    /\ err' = [err EXCEPT ![p] = "nil"]
    /\ b' = [b EXCEPT ![p] = NoBeacon]
    /\ ps' = [ps EXCEPT ![p] = Nil]
    /\ hist' = [hist EXCEPT ![p] = NoHist]
    /\ UNCHANGED <<config, pointOfTrust, potLk, r, rd, walkVars, watchVars>>

\* ----------------------------------------------- getTrustedPreviousSignature
\* Lines 116-128: the walker asks for the chain info; round 1 is answered
\* with the group hash.
\* TInfoBug: round 1 is not answered at once but goes on to the cache.
TInfoBug(p) ==
    /\ pc[p] = "tInfo"
    /\ LET h == Called(hist[p], p) IN
       \/ MayFail /\ End(p, "walk info", r[p], rd[p], NoBeacon, h)
       \/ /\ pc' = [pc EXCEPT ![p] = "tLock"]
          /\ trustRound' = [trustRound EXCEPT ![p] = 1]
          /\ trustPrevSig' = [trustPrevSig EXCEPT ![p] = Nil]
          /\ hist' = [hist EXCEPT ![p] = h]
          /\ UNCHANGED <<r, rd, ps, b, err, ret, initialTrustRound, next>>
    /\ Track(p, items)
    /\ UNCHANGED <<config, pointOfTrust, potLk, calls, inOpen, outCh,
                   outClosed, cancelled, sent, lastOk>>
TInfo(p) ==
    /\ pc[p] = "tInfo"
    /\ LET h == Called(hist[p], p) IN
       \/ MayFail /\ End(p, "walk info", r[p], rd[p], NoBeacon, h)
       \/ IF Round(rd[p]) = 1
          THEN VerifyEnd(p, r[p], rd[p], GroupHash, [h EXCEPT !.walkRet = GroupHash])
          ELSE /\ pc' = [pc EXCEPT ![p] = "tLock"]
               /\ trustRound' = [trustRound EXCEPT ![p] = 1]
               /\ trustPrevSig' = [trustPrevSig EXCEPT ![p] = Nil]
               /\ hist' = [hist EXCEPT ![p] = h]
               /\ UNCHANGED <<r, rd, ps, b, err, ret, initialTrustRound, next>>
    /\ Track(p, items)
    /\ UNCHANGED <<config, pointOfTrust, potLk, calls, inOpen, outCh,
                   outClosed, cancelled, sent, lastOk>>

\* Line 130: v.potLk.Lock()
TLock(p) ==
    /\ pc[p] = "tLock"
    /\ potLk = "free"
    /\ potLk' = p
    /\ pc' = [pc EXCEPT ![p] = "tRead"]
    /\ UNCHANGED <<config, pointOfTrust, calls, r, rd, ps, b, err, ret,
                   walkVars, watchVars, hist, lastOk>>

\* Line 131: the cache cannot serve this round.
SlowPath(round) ==
    pointOfTrust = NoResult \/ Round(pointOfTrust) > round

\* Lines 131-143: with the lock held, read the cache and unlock.
\* TReadKeepsLock: the slow path returns without v.potLk.Unlock().
TReadKeepsLock(p) ==
    /\ pc[p] = "tRead"
    /\ potLk = p
    /\ IF SlowPath(Round(rd[p]))
       THEN /\ pc' = [pc EXCEPT ![p] = "tSlow"]
            /\ UNCHANGED <<potLk, walkVars, hist>>
       ELSE /\ pc' = [pc EXCEPT ![p] = "tLoop"]
            /\ potLk' = "free"
            /\ trustRound' = [trustRound EXCEPT ![p] = Round(pointOfTrust)]
            /\ trustPrevSig' = [trustPrevSig EXCEPT ![p] = Signature(pointOfTrust)]
            /\ initialTrustRound' =
                   [initialTrustRound EXCEPT ![p] = Round(pointOfTrust)]
            /\ hist' = [hist EXCEPT ![p].anchor = Round(pointOfTrust)]
            /\ UNCHANGED next
    /\ UNCHANGED <<config, pointOfTrust, calls, r, rd, ps, b, err, ret,
                   watchVars, lastOk>>
TRead(p) ==
    /\ pc[p] = "tRead"
    /\ potLk = p
    /\ potLk' = "free"
    /\ IF SlowPath(Round(rd[p]))
       THEN /\ pc' = [pc EXCEPT ![p] = "tSlow"]
            /\ UNCHANGED <<walkVars, hist>>
       ELSE /\ pc' = [pc EXCEPT ![p] = "tLoop"]
            /\ trustRound' = [trustRound EXCEPT ![p] = Round(pointOfTrust)]
            /\ trustPrevSig' = [trustPrevSig EXCEPT ![p] = Signature(pointOfTrust)]
            /\ initialTrustRound' =
                   [initialTrustRound EXCEPT ![p] = Round(pointOfTrust)]
            /\ hist' = [hist EXCEPT ![p].anchor = Round(pointOfTrust)]
            /\ UNCHANGED next
    /\ UNCHANGED <<config, pointOfTrust, calls, r, rd, ps, b, err, ret,
                   watchVars, lastOk>>

\* Lines 134-137: the slow path calls getTrustedPreviousSignature(ctx, 1),
\* which asks for the chain info and returns the group hash.
TSlow(p) ==
    /\ pc[p] = "tSlow"
    /\ LET h == Called(hist[p], p) IN
       \/ MayFail /\ End(p, "walk info", r[p], rd[p], NoBeacon, h)
       \/ /\ pc' = [pc EXCEPT ![p] = "tLoop"]
          /\ trustPrevSig' = [trustPrevSig EXCEPT ![p] = GroupHash]
          /\ initialTrustRound' = [initialTrustRound EXCEPT ![p] = trustRound[p]]
          /\ hist' = [hist EXCEPT ![p] = h]
          /\ UNCHANGED <<r, rd, ps, b, err, ret, trustRound, next>>
    /\ Track(p, items)
    /\ UNCHANGED <<config, pointOfTrust, potLk, calls, inOpen, outCh,
                   outClosed, cancelled, sent, lastOk>>

\* Line 146: the loop condition.
MoreToWalk(tr, round) == tr < round - 1

\* Lines 146-163: one turn of the loop: fetch the next round from
\* indirectClient and verify its link to the trusted signature.
\* TStepBug: the error of chain.VerifyBeacon is not looked at.
TStepBug(p) ==
    /\ pc[p] = "tLoop"
    /\ MoreToWalk(trustRound[p], Round(rd[p]))
    /\ LET t == trustRound[p] + 1
           h == [Called(hist[p], p) EXCEPT !.fetched = @ \cup {t}]
       IN
       \/ MayFail /\ End(p, "walk get", r[p], rd[p], NoBeacon, h)
       \/ \E n \in IndirectResults(t) :
            /\ trustRound' = [trustRound EXCEPT ![p] = t]
            /\ trustPrevSig' = [trustPrevSig EXCEPT ![p] = Signature(n)]
            /\ next' = [next EXCEPT ![p] = n]
            /\ hist' = [hist EXCEPT ![p] =
                           [h EXCEPT !.links = @ \cup {t}, !.prims = @ \cup {"v1"}]]
            /\ UNCHANGED <<pc, r, rd, ps, b, err, ret, initialTrustRound>>
    /\ Track(p, items)
    /\ UNCHANGED <<config, pointOfTrust, potLk, calls, inOpen, outCh,
                   outClosed, cancelled, sent, lastOk>>
TStep(p) ==
    /\ pc[p] = "tLoop"
    /\ MoreToWalk(trustRound[p], Round(rd[p]))
    /\ LET t == trustRound[p] + 1
           h == [Called(hist[p], p) EXCEPT !.fetched = @ \cup {t}]
       IN
       \/ MayFail /\ End(p, "walk get", r[p], rd[p], NoBeacon, h)
       \/ \E n \in IndirectResults(t) :
            LET bc == [PreviousSig |-> trustPrevSig[p], Round |-> t,
                       Signature |-> Signature(n), SignatureV2 |-> Nil]
                h2 == [h EXCEPT !.links = @ \cup {t}, !.prims = @ \cup {"v1"}]
            IN
            IF VerifyBeacon(bc)
            THEN /\ trustRound' = [trustRound EXCEPT ![p] = t]
                 /\ trustPrevSig' = [trustPrevSig EXCEPT ![p] = Signature(n)]
                 /\ next' = [next EXCEPT ![p] = n]
                 /\ hist' = [hist EXCEPT ![p] = h2]
                 /\ UNCHANGED <<pc, r, rd, ps, b, err, ret, initialTrustRound>>
            ELSE End(p, "walk verify", r[p], rd[p], NoBeacon, h2)
    /\ Track(p, items)
    /\ UNCHANGED <<config, pointOfTrust, potLk, calls, inOpen, outCh,
                   outClosed, cancelled, sent, lastOk>>

\* Lines 170-173 and the rest of verify: the walker returns trustPrevSig, or
\* the error "unexpected trust round".
WalkReturn(p, h) ==
    IF trustRound[p] # Round(rd[p]) - 1
    THEN End(p, "walk round", r[p], rd[p], NoBeacon, h)
    ELSE VerifyEnd(p, r[p], rd[p], trustPrevSig[p],
                   [h EXCEPT !.walkRet = trustPrevSig[p]])

\* CommitsAlways: the assignment of line 166 without the condition of line 164.
CommitsAlways(tr, round, initial) == TRUE

\* Line 164: the walk commits its last verified result.
Commits(tr, round, initial) == tr = round - 1 /\ tr > initial

\* Lines 164-173, the loop being over: go on to commit, or return.
TExit(p) ==
    /\ pc[p] = "tLoop"
    /\ ~MoreToWalk(trustRound[p], Round(rd[p]))
    /\ IF Commits(trustRound[p], Round(rd[p]), initialTrustRound[p])
       THEN /\ pc' = [pc EXCEPT ![p] = "tCommitLock"]
            /\ UNCHANGED <<r, rd, ps, b, err, ret, walkVars, hist>>
       ELSE WalkReturn(p, hist[p])
    /\ Track(p, items)
    /\ UNCHANGED <<config, pointOfTrust, potLk, calls, inOpen, outCh,
                   outClosed, cancelled, sent, lastOk>>

\* Line 165: v.potLk.Lock()
TCommitLock(p) ==
    /\ pc[p] = "tCommitLock"
    /\ potLk = "free"
    /\ potLk' = p
    /\ pc' = [pc EXCEPT ![p] = "tCommit"]
    /\ UNCHANGED <<config, pointOfTrust, calls, r, rd, ps, b, err, ret,
                   walkVars, watchVars, hist, lastOk>>

\* Lines 166-173: with the lock held, replace the checkpoint, unlock, return.
TCommit(p) ==
    /\ pc[p] = "tCommit"
    /\ potLk = p
    /\ potLk' = "free"
    /\ pointOfTrust' = next[p]
    /\ WalkReturn(p, [hist[p] EXCEPT !.wrote = @ + 1])
    /\ Track(p, items)
    /\ UNCHANGED <<config, calls, inOpen, outCh, outClosed, cancelled, sent, lastOk>>

\* ------------------------------------------------------------------- Watch
\* Lines 65-74: Watch asks for the chain info; on failure it returns a closed
\* channel, otherwise it subscribes upstream and starts the goroutine.
\* WatchStartBug: the error path returns outCh without close(outCh).
WatchStartBug ==
    /\ pc[Watcher] = "watch"
    /\ \/ /\ pc' = [pc EXCEPT ![Watcher] = "closed"]
          /\ err' = [err EXCEPT ![Watcher] = "info"]
          /\ UNCHANGED <<inOpen, outClosed>>
       \/ /\ pc' = [pc EXCEPT ![Watcher] = "recv"]
          /\ inOpen' = TRUE
          /\ UNCHANGED <<outClosed, err>>
    /\ UNCHANGED <<config, pointOfTrust, potLk, calls, r, rd, ps, b, ret,
                   walkVars, outCh, cancelled, hist, items, sent, lastOk>>
WatchStart ==
    /\ pc[Watcher] = "watch"
    /\ \/ /\ pc' = [pc EXCEPT ![Watcher] = "closed"]
          /\ outClosed' = TRUE
          /\ err' = [err EXCEPT ![Watcher] = "info"]
          /\ UNCHANGED inOpen
       \/ /\ pc' = [pc EXCEPT ![Watcher] = "recv"]
          /\ inOpen' = TRUE
          /\ UNCHANGED <<outClosed, err>>
    /\ UNCHANGED <<config, pointOfTrust, potLk, calls, r, rd, ps, b, ret,
                   walkVars, outCh, cancelled, hist, items, sent, lastOk>>

\* Lines 77-78: the goroutine receives the next upstream item, adapts it and
\* starts verify.
WatchRecv ==
    /\ pc[Watcher] = "recv"
    /\ inOpen
    /\ Len(items) < MaxItems
    /\ \E raw \in UpstreamResults :
         /\ VerifyStart(Watcher, raw, NoHist)
         /\ Track(Watcher, Append(items, [valid |-> ValidItem(raw), fate |-> "checking"]))
    /\ UNCHANGED <<config, pointOfTrust, potLk, calls, inOpen, outCh,
                   outClosed, cancelled, sent, lastOk>>

\* Line 82: outCh <- r, which waits while the buffer of one is full.
WatchSend ==
    /\ pc[Watcher] = "send"
    /\ Len(outCh) < 1
    /\ outCh' = Append(outCh, r[Watcher])
    /\ sent' = Append(sent, Len(items))
    /\ pc' = [pc EXCEPT ![Watcher] = "recv"]
    /\ r' = [r EXCEPT ![Watcher] = NoResult]
    /\ b' = [b EXCEPT ![Watcher] = NoBeacon]
    /\ ps' = [ps EXCEPT ![Watcher] = Nil]
    /\ hist' = [hist EXCEPT ![Watcher] = NoHist]
    /\ UNCHANGED <<config, pointOfTrust, potLk, calls, rd, err, ret, walkVars,
                   inOpen, outClosed, cancelled, items, lastOk>>

\* Lines 76-77: the upstream channel is closed, the loop ends and the
\* deferred close(outCh) runs.
WatchEnd ==
    /\ pc[Watcher] = "recv"
    /\ ~inOpen
    /\ outClosed' = TRUE
    /\ pc' = [pc EXCEPT ![Watcher] = "closed"]
    /\ UNCHANGED <<config, pointOfTrust, potLk, calls, r, rd, ps, b, err, ret,
                   walkVars, inOpen, outCh, cancelled, hist, items, sent, lastOk>>

\* ------------------------------------------------------------- environment
\* The wrapped client closes the channel it returned from Watch.
UpstreamClose ==
    /\ inOpen
    /\ inOpen' = FALSE
    /\ UNCHANGED <<config, pointOfTrust, potLk, pc, calls, r, rd, ps, b, err,
                   ret, walkVars, outCh, outClosed, cancelled, hist, items,
                   sent, lastOk>>

\* The consumer of Watch's channel receives an item.
Consume ==
    /\ outCh # <<>>
    /\ outCh' = Tail(outCh)
    /\ UNCHANGED <<config, pointOfTrust, potLk, pc, calls, r, rd, ps, b, err,
                   ret, walkVars, inOpen, outClosed, cancelled, hist, items,
                   sent, lastOk>>

\* The context given to Watch is cancelled.
Cancel ==
    /\ pc[Watcher] # "watch"
    /\ ~cancelled
    /\ cancelled' = TRUE
    /\ UNCHANGED <<config, pointOfTrust, potLk, pc, calls, r, rd, ps, b, err,
                   ret, walkVars, inOpen, outCh, outClosed, hist, items,
                   sent, lastOk>>

\* ---------------------------------------------------------- specifications
Walk(p) ==
    \/ TInfo(p)
    \/ TLock(p)
    \/ TRead(p)
    \/ TSlow(p)
    \/ TStep(p)
    \/ TExit(p)
    \/ TCommitLock(p)
    \/ TCommit(p)

GetStep(p) ==
    \/ GetInfo(p)
    \/ GetFetch(p)
    \/ GetReturn(p)
    \/ Walk(p)

WatchStep ==
    \/ WatchStart
    \/ WatchRecv
    \/ WatchSend
    \/ WatchEnd
    \/ Walk(Watcher)

\* One caller making Get calls one after the other.
Next == GetStep("g1")

Spec == Init /\ [][Next]_vars

\* One Watch subscription and its consumer.
NextWatch ==
    \/ WatchStep
    \/ UpstreamClose
    \/ Consume

SpecWatch == Init /\ [][NextWatch]_vars

\* Several callers making Get calls concurrently.
NextConc == \E p \in Getters : GetStep(p)

SpecConc == InitPlain /\ [][NextConc]_vars

\* The same callers, each goroutine scheduled again and again.
FairConc == SpecConc /\ \A p \in Getters : WF_vars(GetStep(p))

\* One caller of Get and one Watch subscription on the same client.
NextMix ==
    \/ GetStep("g1")
    \/ WatchStep
    \/ UpstreamClose
    \/ Consume

SpecMix == InitPlain /\ [][NextMix]_vars

\* Callers of Get, and a Watch subscription, on honest wrapped clients.
SpecHonest == InitHonest /\ [][NextConc]_vars

SpecHonestWatch == InitHonest /\ [][NextWatch]_vars

\* One Watch subscription whose context may be cancelled. The goroutine is
\* scheduled again and again, and the wrapped client closes its channel once
\* the context is cancelled; the consumer is free to stop receiving.
NextCancel ==
    \/ WatchStep
    \/ UpstreamClose
    \/ Consume
    \/ Cancel

SpecCancel ==
    /\ InitPlain
    /\ [][NextCancel]_vars
    /\ WF_vars(WatchStep)
    /\ WF_vars(cancelled /\ UpstreamClose)

\* -------------------------------------------------------------- properties
\* The signature the primitive checked in beacon bc.
VerifiedSig(bc) == IF bc.Round >= v2from THEN bc.SignatureV2 ELSE bc.Signature

\* A caller holds the result Get returned to it.
Returned(p) == pc[p] = "done" /\ err[p] = "nil"

\* C1: every result a caller receives, returned by Get or sent by Watch on
\* its output channel, carries the randomness derived from the signature
\* that was verified for its round, whatever randomness and whatever shape
\* the upstream result had.
C1_RandomnessDerived ==
    /\ \A p \in Getters :
         Returned(p) =>
            Randomness(ret[p]) = RandomnessFromSignature(VerifiedSig(b[p]))
    /\ pc[Watcher] = "send" =>
         Randomness(r[Watcher]) = RandomnessFromSignature(VerifiedSig(b[Watcher]))

\* C2: Get fails closed.  It returns a result only if Client.Get was called
\* and answered, the signature of the fetched round is the one the beacon
\* published for it, and every link the walk fetched was verified; in every
\* other case it returns an error, no result and no randomness.
C2_GetFailsClosed ==
    \A p \in Getters :
        pc[p] = "done" =>
            /\ (err[p] = "nil") = (ret[p] # NoResult)
            /\ ret[p] # NoResult =>
                  /\ hist[p].primary
                  /\ ValidItem(ret[p])
                  /\ hist[p].links = hist[p].fetched
                  /\ Randomness(ret[p]) = RandomnessFromSignature(VerifiedSig(b[p]))
            /\ ret[p] = NoResult => Randomness(ret[p]) = Nil

\* C2 witness: a Get returned a round it verified through a walk that
\* fetched and verified a link.
C2_Witness ==
    \E p \in Getters :
        /\ Returned(p)
        /\ ret[p] # NoResult
        /\ hist[p].psFrom = "walker"
        /\ hist[p].links # {}

\* The indices of the upstream items whose signature is valid.
ValidIndices ==
    LET Valid(i) == items[i].valid
    IN SelectSeq([i \in 1..Len(items) |-> i], Valid)

\* The watch goroutine is between two items, or has ended.
BetweenItems == pc[Watcher] \in {"recv", "closed"} /\ err[Watcher] # "info"

\* C3: the items sent are exactly the upstream items whose
\* signature is the valid one for their round, in upstream order, and a
\* dropped item never closes the output.
C3_SentAreTheValid ==
    /\ BetweenItems => sent = ValidIndices
    /\ outClosed /\ err[Watcher] # "info" => ~inOpen

\* The call of p went through the chain walker.
Walked(p) == hist[p].psFrom = "walker"

\* The rounds the walk of p fetched or link-verified.
Touched(p) == hist[p].fetched \cup hist[p].links

\* The call of p began after a Get had returned round hist[p].since.Rnd,
\* verified through the chain walk, and walks the chain itself.
AfterWalkedGet(p) == p \in Getters /\ Walked(p) /\ hist[p].since.walked

\* C4: after a successful walked verification of round R, a walk targeting
\* R+1 fetches and verifies no round less than or equal to R.
C4_NoRoundUpToR ==
    \A p \in Getters :
        AfterWalkedGet(p) /\ hist[p].round = hist[p].since.Rnd + 1 =>
            \A n \in Touched(p) : n > hist[p].since.Rnd

\* The round p asked for was rejected although the signature fetched for it
\* is the published one, or its walk did not land on the previous round.
Refused(p) ==
    /\ pc[p] = "done"
    /\ \/ err[p] \in {"walk round", "walk verify"}
       \/ err[p] = "verify" /\ b[p].Signature = ChainSig(b[p].Round)

\* C5: a repeated request for an already verified round returns the same
\* randomness as the first request, and its walk fetches no round and
\* verifies no link.
C5_RepeatIsFree ==
    \A p \in Getters :
        AfterWalkedGet(p) /\ hist[p].round = hist[p].since.Rnd =>
            /\ Touched(p) = {}
            /\ Returned(p) => Randomness(ret[p]) = hist[p].since.Random
            /\ ~Refused(p)

\* C8: for a round below the threshold verified in strict mode, the previous
\* signature handed to the v1 primitive is the one the chain walker
\* returned, whatever hint the round carries, and the randomness produced is
\* derived from the round's v1 signature.
C8_StrictUsesWalker ==
    \A p \in Getters :
        (strict /\ b[p] # NoBeacon /\ b[p].Round < v2from) =>
            /\ Walked(p)
            /\ b[p].PreviousSig = hist[p].walkRet
            /\ hist[p].round = 1 => b[p].PreviousSig = GroupHash
            /\ Returned(p) =>
                  /\ Randomness(ret[p]) = RandomnessFromSignature(ret[p].Sig)
                  /\ b[p].Signature = ret[p].Sig

\* C8 witness: a strict client returned a round below the threshold that
\* carries a hint other than the signature the walker returned.
C8_Witness ==
    \E p \in Getters :
        /\ strict
        /\ Returned(p)
        /\ Round(ret[p]) < v2from
        /\ ret[p].PreviousSignature # Nil
        /\ ret[p].PreviousSignature # b[p].PreviousSig

\* C9: a round at or after the threshold is verified by the v2 primitive on
\* its v2 signature and never by the v1 primitive; a round below the
\* threshold is verified by the v1 primitive and never by the v2 primitive.
C9_SchemeByThreshold ==
    \A p \in Getters :
        /\ hist[p].round >= v2from => hist[p].prims \subseteq {"v2"}
        /\ hist[p].round < v2from => hist[p].prims \subseteq {"v1"}
        /\ b[p] # NoBeacon =>
              /\ hist[p].prims # {}
              /\ b[p].Round = hist[p].round
              /\ b[p].Round >= v2from => b[p].Signature = Nil
              /\ b[p].Round < v2from => b[p].SignatureV2 = Nil
        /\ Returned(p) /\ Round(ret[p]) >= v2from =>
              b[p].SignatureV2 = ret[p].SigV2

\* C9 witness: a round equal to the threshold was returned.
C9_Witness ==
    \E p \in Getters :
        /\ Returned(p)
        /\ Round(ret[p]) = v2from
        /\ hist[p].prims = {"v2"}

\* C10: a Get whose chain-info request fails returns that error and no
\* result, calls neither Client.Get nor indirectClient.Get, and does not
\* write the cache.
C10_InfoFailureStopsGet ==
    \A p \in Getters :
        pc[p] = "done" /\ err[p] = "info" =>
            /\ ret[p] = NoResult
            /\ ~hist[p].primary
            /\ hist[p].fetched = {}
            /\ hist[p].wrote = 0
            /\ hist[p].prims = {}

\* C10 witness: a Get ended with the chain-info error while the cache holds
\* a checkpoint.
C10_Witness ==
    \E p \in Getters :
        /\ pc[p] = "done"
        /\ err[p] = "info"
        /\ pointOfTrust # NoResult

\* A Get call of p is in progress.
InFlight(p) == pc[p] \notin {"idle", "done"}

\* C6: concurrent Get calls for increasing rounds all end, each with a result
\* or an error, and none waits for ever for the cache lock; the checkpoint
\* changes only when one of their walks commits its last verified result, so
\* that a cache that was empty is still empty or holds such a result when
\* they have finished.
C6_ConcurrentGetsEnd ==
    /\ <>[](\A p \in Getters : ~InFlight(p) /\ potLk # p)
    /\ [][pointOfTrust' # pointOfTrust =>
            \E p \in Getters :
                /\ pc[p] = "tCommit"
                /\ potLk = p
                /\ pointOfTrust' = next[p]
                /\ hist'[p].wrote = hist[p].wrote + 1]_vars
    /\ [](\A p \in Getters : hist[p].wrote = 0 \/ pointOfTrust # NoResult)

\* C6 witness: two Get calls for increasing rounds, started with an empty
\* cache, have both gone through the walker and ended, and the cache is
\* still empty.
C6_Witness ==
    /\ calls["g1"] = 0
    /\ calls["g2"] = 0
    /\ pc["g1"] = "done"
    /\ pc["g2"] = "done"
    /\ Walked("g1")
    /\ Walked("g2")
    /\ 1 < hist["g1"].round
    /\ hist["g1"].round < hist["g2"].round
    /\ hist["g1"].wrote = 0
    /\ hist["g2"].wrote = 0
    /\ pointOfTrust = NoResult

\* Watch subscribed upstream and started its goroutine.
Streaming == pc[Watcher] # "watch" /\ err[Watcher] # "info"

\* C7: once Watch streams, its output channel is eventually closed after the
\* upstream channel closes and eventually closed after the context is
\* cancelled, and it is closed for no other reason.
C7_OutputCloses ==
    /\ (Streaming /\ ~inOpen) ~> outClosed
    /\ (Streaming /\ cancelled) ~> outClosed
    /\ [](Streaming /\ outClosed => ~inOpen)

\* C11: when the chain info cannot be fetched at the start of Watch, the
\* channel Watch returns is already closed and never delivers an item.
C11_InfoFailureClosesWatch ==
    err[Watcher] = "info" =>
        /\ outClosed
        /\ outCh = <<>>
        /\ sent = <<>>
        /\ items = <<>>
        /\ ~inOpen
        /\ pc[Watcher] = "closed"

\* C11 witness: Watch ended on the chain-info error while the client holds
\* a checkpoint.
C11_Witness ==
    /\ err[Watcher] = "info"
    /\ pc[Watcher] = "closed"
    /\ pointOfTrust # NoResult

\* The places of the walker that read or write the cache.
AtCache == {"tLock", "tRead", "tSlow", "tLoop", "tCommitLock", "tCommit"}

\* C12: getTrustedPreviousSignature(1) returns the group hash of the chain
\* info without reading or writing the cache and without fetching a round.
C12_RoundOneIsGroupHash ==
    \A p \in Procs :
        Walked(p) /\ hist[p].round = 1 =>
            /\ pc[p] \notin AtCache
            /\ hist[p].fetched = {}
            /\ hist[p].links = {}
            /\ hist[p].wrote = 0
            /\ hist[p].anchor = 0
            /\ b[p] # NoBeacon =>
                  /\ hist[p].walkRet = GroupHash
                  /\ b[p].PreviousSig = GroupHash

\* C12 witness: a Get of round 1 went through the walker and returned while
\* the cache holds a checkpoint.
C12_Witness ==
    \E p \in Getters :
        /\ Walked(p)
        /\ hist[p].round = 1
        /\ Returned(p)
        /\ pointOfTrust # NoResult

\* The chain walker of p has returned a previous signature without error.
WalkerReturned(p) == Walked(p) /\ b[p] # NoBeacon

\* C13: whenever getTrustedPreviousSignature(round) returns without error
\* for a round of 2 or more, what it returns is the published signature of
\* round-1, from a cold cache as from a warm one.
C13_WalkerReturnsPreviousSig ==
    \A p \in Procs :
        WalkerReturned(p) /\ hist[p].round >= 2 =>
            hist[p].walkRet = ChainSig(hist[p].round - 1)

\* The signature of result x is one the beacon published.
Published(x) == \E t \in Rounds : Signature(x) = ChainSig(t)

\* The walk of p has verified every link from the anchor it started from up
\* to the result it holds in next.
LinksVerified(p) ==
    /\ trustRound[p] > initialTrustRound[p]
    /\ hist[p].links = (initialTrustRound[p] + 1)..trustRound[p]
    /\ hist[p].fetched = hist[p].links
    /\ Signature(next[p]) = trustPrevSig[p]

\* C14: under any interleaving of Get and Watch, the cached checkpoint is
\* empty, the checkpoint given at construction, or a result whose signature
\* is a published one; it is replaced only by the last result of a walk all
\* of whose links, from the anchor up to that result, passed VerifyBeacon.
C14_CheckpointIsVerified ==
    /\ [](pointOfTrust = NoResult \/ Published(pointOfTrust))
    /\ [][pointOfTrust' # pointOfTrust =>
            \E p \in Procs :
                /\ pc[p] = "tCommit"
                /\ LinksVerified(p)
                /\ Published(next[p])
                /\ pointOfTrust' = next[p]]_vars

\* C14 witness: a walk has committed a checkpoint of round 2 or more while
\* the other caller is inside its own walk.
C14_Witness ==
    /\ Round(pointOfTrust) >= 2
    /\ \E p \in Procs : hist[p].wrote = 1
    /\ \E p \in Procs : pc[p] \in AtCache

\* C15: the round of the cached checkpoint never decreases, whatever the
\* interleaving of the walks of concurrent callers: no commit replaces the
\* checkpoint with a result of a lower round.
C15_CheckpointNeverDecreases ==
    [][Round(pointOfTrust') >= Round(pointOfTrust)]_vars

\* The errors with which getTrustedPreviousSignature returns.
WalkErrors == {"walk info", "walk get", "walk verify", "walk round"}

\* The rounds a walk fetched without verifying their link: none, or the one
\* round at which the walk stopped, which is the last one it fetched.
StoppedAt(p) == hist[p].fetched \ hist[p].links

\* C16: a walk that ends with a fetch error (a cancelled context included), a
\* link failure or any other walker error fetches no round after the failing
\* step and has not written the cache; a walk writes the cache at most once,
\* and only when every link up to round-1 has been fetched and verified.
C16_FailedWalkLeavesCache ==
    /\ [](\A p \in Procs :
            /\ hist[p].wrote <= 1
            /\ hist[p].wrote = 1 =>
                   /\ hist[p].links # {}
                   /\ hist[p].links = hist[p].fetched
                   /\ \A t \in hist[p].links : t <= hist[p].round - 1
                   /\ hist[p].round - 1 \in hist[p].links
            /\ err[p] \in WalkErrors =>
                   /\ hist[p].wrote = 0
                   /\ pc[p] \notin AtCache
                   /\ hist[p].links \subseteq hist[p].fetched
                   /\ Cardinality(StoppedAt(p)) <= 1
                   /\ \A t \in StoppedAt(p) : \A u \in hist[p].fetched : u <= t
                   /\ err[p] = "walk get" => StoppedAt(p) # {}
                   /\ err[p] = "walk verify" => hist[p].links # {})
    /\ [][\A p \in Procs :
            err'[p] \in WalkErrors /\ pc[p] \in AtCache /\ pc'[p] \notin AtCache =>
                pointOfTrust' = pointOfTrust]_vars
    /\ [][pointOfTrust' # pointOfTrust =>
            \E p \in Procs :
                /\ pc[p] = "tCommit"
                /\ hist[p].wrote = 0
                /\ hist'[p].wrote = 1
                /\ trustRound[p] = hist[p].round - 1]_vars

\* C16 witness: a walk that verified one link and fetched the next has ended
\* with an error, the cache still holding the checkpoint it started from.
C16_Witness ==
    \E p \in Getters :
        /\ pc[p] = "done"
        /\ err[p] \in {"walk get", "walk verify"}
        /\ Cardinality(hist[p].fetched) >= 2
        /\ Round(pointOfTrust) = hist[p].anchor
        /\ hist[p].anchor >= 1

\* C17: no caller holds the cache lock while it asks for the chain info,
\* fetches a round or calls a verification primitive: the lock is held only
\* at the in-memory read (line 130-142) and write (line 165-167) of the
\* checkpoint, on the slow path as well.
C17_LockNotHeldAcrossCalls ==
    /\ potLk \in Procs \cup {"free"}
    /\ \A p \in Procs :
        /\ ~hist[p].lockedCall
        /\ potLk = p => pc[p] \in {"tRead", "tCommit"}
        /\ pc[p] \in {"tInfo", "tSlow", "tLoop", "get", "watch", "recv"} => potLk # p

\* C17 witness: one caller has committed a walk and another has gone through
\* the slow path, which handed it the group hash for a round above 1.
C17_Witness ==
    \E p, q \in Getters :
        /\ pc[p] = "done" /\ hist[p].wrote = 1
        /\ pc[q] = "done" /\ hist[q].round >= 2
        /\ hist[q].anchor = 0 /\ hist[q].walkRet = GroupHash

\* The call of p verified its round with the hint field of the round as the
\* previous signature; b[p] is the beacon it handed to the primitive.
ByHint(p) == hist[p].psFrom = "hint" /\ b[p] # NoBeacon

\* The call of p is inside the chain walker; rd[p] is the round it verifies.
InWalker(p) == pc[p] \in AtCache \cup {"tInfo"}

\* C18 as stated: the hint is the previous signature exactly when a hint is
\* present and the round is at or after the threshold or strict mode is off;
\* every other round, one at or after the threshold without a hint included,
\* goes to the chain walker.
C18_HintOnlyIfPresent ==
    \A p \in Getters :
        /\ ByHint(p) =>
              /\ b[p].PreviousSig # Nil
              /\ b[p].Round >= v2from \/ ~strict
        /\ InWalker(p) =>
              ~(rd[p].PreviousSignature # Nil /\ (Round(rd[p]) >= v2from \/ ~strict))

\* C18 amended: verify calls the chain walker exactly when the round is below
\* the threshold and strict mode is on or the round has no hint; in every
\* other case, a round at or after the threshold without a hint included, the
\* walker is not called and the previous signature handed to the primitive
\* is the round's hint field, empty when there is no hint.
C18_WalkerOnlyBelowThreshold ==
    \A p \in Getters :
        /\ ByHint(p) =>
              /\ ~(b[p].Round < v2from /\ (strict \/ b[p].PreviousSig = Nil))
              /\ ps[p] = b[p].PreviousSig
              /\ hist[p].walkRet = Nil /\ Touched(p) = {} /\ ~InWalker(p)
        /\ InWalker(p) =>
              /\ Walked(p)
              /\ Round(rd[p]) < v2from
              /\ strict \/ rd[p].PreviousSignature = Nil
        /\ Walked(p) => hist[p].round < v2from
        /\ hist[p].round >= v2from /\ b[p] # NoBeacon => ByHint(p)

\* C18 witness: a round at or after the threshold that has no hint was
\* verified, with an empty previous signature and without the walker.
C18_Witness ==
    \E p \in Getters :
        /\ Returned(p) /\ ByHint(p)
        /\ b[p].Round >= v2from
        /\ b[p].PreviousSig = Nil
        /\ ret[p].PreviousSignature = Nil

\* C19: when verify succeeds, the signature handed to the verification
\* primitive, the signature the randomness is derived from and the one the
\* returned result exposes through Signature() are the same, also for a
\* *RandomData passed through unchanged whose version does not match the
\* side of the threshold its round is on.
C19_SignaturesCoincide ==
    \A p \in Getters :
        Returned(p) =>
            /\ Signature(ret[p]) = VerifiedSig(b[p])
            /\ Randomness(ret[p]) = RandomnessFromSignature(Signature(ret[p]))

\* C20: on a source that serves the honest chain and never fails, the chain
\* walker returns no error for any round, whatever the cache holds when it
\* is called: nothing, or a checkpoint below, at or above the round asked.
C20_HonestWalkSucceeds ==
    \A p \in Procs :
        Walked(p) /\ ~InWalker(p) => err[p] \notin WalkErrors

====
